---------------------------- MODULE Spec2Model ----------------------------
(***************************************************************************)
(* jack-midi-sink: a JACK client with one MIDI input port whose process    *)
(* callback decodes every raw MIDI frame of a cycle with                   *)
(* nom_midi::parser::parse_midi_event and logs the outcome at info level.  *)
(*                                                                         *)
(* The model covers main (src/main.rs:87-98), setup_logger                 *)
(* (src/main.rs:102-113), run (src/main.rs:16-24), Ports::setup            *)
(* (src/main.rs:32-36), Ports::process (src/main.rs:40-57) and the Debug   *)
(* formatting of RawMidi (src/main.rs:117-128).                            *)
(*                                                                         *)
(* Text is modelled as sequences of one-character strings.  The decoder    *)
(* is a library function whose source is not part of the program: it is    *)
(* modelled as an arbitrary but fixed function of the frame's bytes.       *)
(* The logger installed by setup_logger writes each enabled record to the  *)
(* process's stderr synchronously on the calling thread; stderr is a       *)
(* bounded pipe drained by whoever reads it.                               *)
(***************************************************************************)
EXTENDS Integers, Sequences, FiniteSets

\* ------------------------------------------------------------------ bounds

\* Most frames the host delivers in one cycle.
MaxFrames == 2
\* Lines stderr holds before a write to it blocks.
PipeCap == 1
\* Most occurrences of -v on the command line.
MaxVerbosity == 2

\* Frame offsets the host tags frames with (RawMidi::time).
Times == {0, 12}

\* Byte slices the host delivers (RawMidi::bytes).
FrameBytes == { <<144, 60, 64>>, <<176, 255>>, <<10>> }

\* The decoded event the library returns for a slice it accepts.
MidiEvents == {"MidiEvent"}

\* ------------------------------------------------------------------- state

VARIABLES
    verbosity,          \* Opt::verbosity, from the command line
    logger,             \* the installed filter, NoLogger before setup_logger
    pc,                 \* position of main/run
    client,             \* "none" | "open" | "closed"
    ports,              \* the Ports value, NoPorts before Ports::setup
    active,             \* the handler is registered with an activated client
    txAlive,            \* the sender half of run's channel is alive
    parse_midi_event,   \* the decoder: bytes -> Ok(evt) | Err
    rt,                 \* "idle" | "loop": the callback's position
    cur,                \* frames of the cycle being processed
    idx,                \* index of the next frame the loop visits
    emitted,            \* records the callback logged in that cycle
    ret,                \* the callback's last return value, "none" before
    stderr,             \* number of lines written and not yet read
    rt_ops,             \* kinds of operation performed inside the callback
    first               \* history: first outcome logged for each byte slice

vars == <<verbosity, logger, pc, client, ports, active, txAlive,
          parse_midi_event, rt, cur, idx, emitted, ret, stderr, rt_ops, first>>

\* ----------------------------------------------------------------- logging

\* Before a logger is installed the log crate discards every record.
NoLogger == [default |-> "Off", jack_midi_sink |-> "Off"]

\* No Ports value exists before Ports::setup.
NoPorts == [sink |-> "none"]

\* No outcome has been logged yet for a byte slice.
NoOutcome == <<"none", "none">>

\* log::LevelFilter orders Off < Error < Warn < Info < Debug < Trace.
LevelRank(l) ==
    CASE l = "Off" -> 0 [] l = "Error" -> 1 [] l = "Warn" -> 2
      [] l = "Info" -> 3 [] l = "Debug" -> 4 [] l = "Trace" -> 5

\* A mapping that shifts every level down by one (0 -> warn).
setup_logger_shifted(v) ==
    [default |-> "Warn",
     jack_midi_sink |-> IF v = 0 THEN "Warn" ELSE IF v = 1 THEN "Info" ELSE "Debug"]

\* setup_logger: the filter built from the verbosity.
setup_logger(v) ==
    [default |-> "Warn",
     jack_midi_sink |-> IF v = 0 THEN "Info" ELSE IF v = 1 THEN "Debug" ELSE "Trace"]

\* The directive that applies to a target: the named one, else the default.
FilterFor(lg, target) ==
    IF target = "jack_midi_sink" THEN lg.jack_midi_sink ELSE lg.default

\* log_enabled!: whether a record of this target and level is written.
Enabled(lg, target, level) ==
    LevelRank(level) <= LevelRank(FilterFor(lg, target))

\* A blocking write to stderr can proceed.
SinkWritable == stderr < PipeCap

\* ------------------------------------------------------------- formatting

HexDigits == <<"0", "1", "2", "3", "4", "5", "6", "7",
               "8", "9", "a", "b", "c", "d", "e", "f">>

\* {:x} of a u8: lower-case hexadecimal, no padding.
LowerHex(byte) ==
    IF byte < 16 THEN << HexDigits[byte + 1] >>
    ELSE << HexDigits[(byte \div 16) + 1], HexDigits[(byte % 16) + 1] >>

RECURSIVE FmtRest(_)
\* The loop over the remaining bytes: ", " then the byte.
FmtRest(s) ==
    IF s = << >> THEN << >>
    ELSE <<",", " ">> \o LowerHex(Head(s)) \o FmtRest(Tail(s))

\* <RawMidi as Debug>::fmt
RawMidiFmt(bytes) ==
    <<"[">>
    \o (IF bytes = << >> THEN << >>
        ELSE LowerHex(Head(bytes)) \o FmtRest(Tail(bytes)))
    \o <<"]">>

RECURSIVE Dec(_)
\* {} of a u32: decimal.
Dec(n) ==
    IF n < 10 THEN << HexDigits[n + 1] >>
    ELSE Dec(n \div 10) \o << HexDigits[(n % 10) + 1] >>

\* ------------------------------------------------------------ the callback

\* Both branches with the failure branch's arguments swapped.
ReportSwapped(frame, res) ==
    IF res.ok
    THEN [level |-> "Info", target |-> "jack_midi_sink",
          msg |-> <<"received ", res.evt, " at ", Dec(frame.time),
                    " (raw: ", RawMidiFmt(frame.bytes), ")">>]
    ELSE [level |-> "Info", target |-> "jack_midi_sink",
          msg |-> <<"unparseable midi event ", Dec(frame.time),
                    " at ", RawMidiFmt(frame.bytes)>>]

\* The record each arm of the match logs.
Report(frame, res) ==
    IF res.ok
    THEN [level |-> "Info", target |-> "jack_midi_sink",
          msg |-> <<"received ", res.evt, " at ", Dec(frame.time),
                    " (raw: ", RawMidiFmt(frame.bytes), ")">>]
    ELSE [level |-> "Info", target |-> "jack_midi_sink",
          msg |-> <<"unparseable midi event ", RawMidiFmt(frame.bytes),
                    " at ", Dec(frame.time)>>]

\* Failures held back behind the successes logged after them.
EmitFailuresLast(log, line) ==
    IF line.msg[1] = "received " /\ log # << >>
       /\ log[Len(log)].msg[1] # "received "
    THEN SubSeq(log, 1, Len(log) - 1) \o <<line, log[Len(log)]>>
    ELSE Append(log, line)

\* A record is written after those written before it.
Emit(log, line) == Append(log, line)

\* A loop that leaves at the first frame that fails to decode.
NextIdxBreakOnErr(i, frames, res) ==
    IF res.ok THEN i + 1 ELSE Len(frames) + 1

\* The for loop goes on to the next frame whatever the outcome.
NextIdx(i, frames, res) == i + 1

\* A handler that remembers whether its last frame decoded.
PortsAfterRemember(p, res) == [sink |-> p.sink, running |-> res.ok]

\* process does not assign to self.
PortsAfter(p, res) == p

\* A callback that asks the host to stop after a failure.
ProcessControlQuitOnError(lines) ==
    IF \E i \in 1..Len(lines) : lines[i].msg[1] # "received "
    THEN "Quit" ELSE "Continue"

\* The value process returns.
ProcessControl(lines) == "Continue"

\* ------------------------------------------------------------------ inputs

Frames == [time : Times, bytes : FrameBytes]

\* The frames of one cycle: offsets do not decrease within a cycle.
Cycles ==
    { s \in UNION { [1..n -> Frames] : n \in 0..MaxFrames } :
        \A i \in 1..Len(s) : \A j \in i..Len(s) : s[i].time <= s[j].time }

ParseResults ==
    { [ok |-> FALSE, evt |-> "none"] } \cup { [ok |-> TRUE, evt |-> e] : e \in MidiEvents }

Init ==
    /\ verbosity \in 0..MaxVerbosity
    /\ parse_midi_event \in [FrameBytes -> ParseResults]
    /\ logger = NoLogger
    /\ pc = "main"
    /\ client = "none"
    /\ ports = NoPorts
    /\ active = FALSE
    /\ txAlive = FALSE
    /\ rt = "idle"
    /\ cur = << >>
    /\ idx = 1
    /\ emitted = << >>
    /\ ret = "none"
    /\ stderr = 0
    /\ rt_ops = {}
    /\ first = [b \in FrameBytes |-> NoOutcome]


\* ---------------------------------------------------------- main and run

\* main: setup_logger(opts.verbosity), then run(opts).
SetupLogger ==
    /\ pc = "main"
    /\ logger' = setup_logger(verbosity)
    /\ pc' = "run"
    /\ UNCHANGED <<verbosity, client, ports, active, txAlive, parse_midi_event,
                   rt, cur, idx, emitted, ret, stderr, rt_ops, first>>

\* Client::new(..)? and the line log::info!("name: {}", ..) that follows it.
ClientNew ==
    /\ pc = "run"
    /\ \/ /\ Enabled(logger, "jack_midi_sink", "Info") => SinkWritable
          /\ client' = "open"
          /\ pc' = "client"
          /\ stderr' = IF Enabled(logger, "jack_midi_sink", "Info")
                       THEN stderr + 1 ELSE stderr
       \/ /\ client' = "none"
          /\ pc' = "err"
          /\ UNCHANGED stderr
    /\ UNCHANGED <<verbosity, logger, ports, active, txAlive, parse_midi_event,
                   rt, cur, idx, emitted, ret, rt_ops, first>>

\* Ports::setup(&client)?: register the port "sink".
PortsSetup ==
    /\ pc = "client"
    /\ \/ /\ ports' = [sink |-> "sink"]
          /\ pc' = "ports"
          /\ UNCHANGED client
       \/ /\ pc' = "err"
          /\ client' = "closed"
          /\ UNCHANGED ports
    /\ UNCHANGED <<verbosity, logger, active, txAlive, parse_midi_event,
                   rt, cur, idx, emitted, ret, stderr, rt_ops, first>>

\* client.activate_async((), ports)?: the handler is handed to the host.
Activate ==
    /\ pc = "ports"
    /\ \/ /\ active' = TRUE
          /\ pc' = "activated"
          /\ UNCHANGED client
       \/ /\ pc' = "err"
          /\ client' = "closed"
          /\ UNCHANGED active
    /\ UNCHANGED <<verbosity, logger, ports, txAlive, parse_midi_event,
                   rt, cur, idx, emitted, ret, stderr, rt_ops, first>>

\* A sender bound to the pattern _ is dropped at once.
TxBindingDropped == FALSE

\* let (_tx, rx): the sender lives until the end of run.
TxBinding == TRUE

\* std::sync::mpsc::channel::<()>()
Channel ==
    /\ pc = "activated"
    /\ txAlive' = TxBinding
    /\ pc' = "recv"
    /\ UNCHANGED <<verbosity, logger, client, ports, active, parse_midi_event,
                   rt, cur, idx, emitted, ret, stderr, rt_ops, first>>

\* rx.recv(): waits while the sender is alive and nothing was sent; with
\* the sender gone it returns, run returns Ok(()) and the async client is
\* dropped, which deactivates and closes it.
Recv ==
    /\ pc = "recv"
    /\ IF txAlive
       THEN UNCHANGED <<pc, active, client>>
       ELSE /\ pc' = "exit"
            /\ active' = FALSE
            /\ client' = "closed"
    /\ UNCHANGED <<verbosity, logger, ports, txAlive, parse_midi_event,
                   rt, cur, idx, emitted, ret, stderr, rt_ops, first>>

\* main: if let Err(err) = run(opts) { log::error!(..) }
MainLogError ==
    /\ pc = "err"
    /\ Enabled(logger, "jack_midi_sink", "Error") => SinkWritable
    /\ stderr' = IF Enabled(logger, "jack_midi_sink", "Error")
                 THEN stderr + 1 ELSE stderr
    /\ pc' = "exit"
    /\ UNCHANGED <<verbosity, logger, client, ports, active, txAlive,
                   parse_midi_event, rt, cur, idx, emitted, ret, rt_ops, first>>

\* ------------------------------------------------------- Ports::process

\* The host calls process with the cycle's frames; it does so only for the
\* handler of an activated client and never re-entrantly.
CycleStart ==
    /\ active
    /\ rt = "idle"
    /\ \E frames \in Cycles : cur' = frames
    /\ rt' = "loop"
    /\ UNCHANGED <<idx, emitted>>
    /\ UNCHANGED <<verbosity, logger, pc, client, ports, active, txAlive,
                   parse_midi_event, ret, stderr, rt_ops, first>>

\* The outcome a logged record states: its kind and, if decoded, the event.
Outcome(line) ==
    IF line.msg[1] = "received " THEN <<"received", line.msg[2]>>
    ELSE <<"unparseable", "none">>

\* One iteration of the for loop: decode the frame, log the matching arm.
\* log::info! formats and writes on the calling thread when the record is
\* enabled; the write waits while stderr is full.
ProcessFrame ==
    /\ rt = "loop"
    /\ idx <= Len(cur)
    /\ LET frame == cur[idx]
           res == parse_midi_event[frame.bytes]
           on == Enabled(logger, "jack_midi_sink", "Info")
           line == Report(frame, res)
       IN /\ on => SinkWritable
          /\ stderr' = IF on THEN stderr + 1 ELSE stderr
          /\ emitted' = IF on THEN Emit(emitted, line) ELSE emitted
          /\ rt_ops' = rt_ops \cup {"decode"}
                       \cup (IF on THEN {"format", "write_stderr"} ELSE {})
          /\ first' = IF on /\ first[frame.bytes] = NoOutcome
                      THEN [first EXCEPT ![frame.bytes] = Outcome(line)]
                      ELSE first
          /\ ports' = PortsAfter(ports, res)
          /\ idx' = NextIdx(idx, cur, res)
    /\ UNCHANGED <<verbosity, logger, pc, client, active, txAlive,
                   parse_midi_event, rt, cur, ret>>

\* The loop is over: process returns its Control and the cycle's frames
\* are gone; the host takes a handler that does not return Continue out of
\* the graph.
ProcessReturn ==
    /\ rt = "loop"
    /\ idx > Len(cur)
    /\ ret' = ProcessControl(emitted)
    /\ active' = (active /\ ret' = "Continue")
    /\ rt' = "idle"
    /\ cur' = << >>
    /\ idx' = 1
    /\ emitted' = << >>
    /\ UNCHANGED <<verbosity, logger, pc, client, ports, txAlive,
                   parse_midi_event, stderr, rt_ops, first>>

\* Whoever reads stderr takes a line out of it.
Drain ==
    /\ stderr > 0
    /\ stderr' = stderr - 1
    /\ UNCHANGED <<verbosity, logger, pc, client, ports, active, txAlive,
                   parse_midi_event, rt, cur, idx, emitted, ret, rt_ops, first>>

Next ==
    \/ SetupLogger
    \/ ClientNew
    \/ PortsSetup
    \/ Activate
    \/ Channel
    \/ Recv
    \/ MainLogError
    \/ CycleStart
    \/ ProcessFrame
    \/ ProcessReturn
    \/ Drain

Spec == Init /\ [][Next]_vars

\* ------------------------------------------------- reading the log back

HexChars == { HexDigits[i] : i \in 1..16 }
DecChars == { HexDigits[i] : i \in 1..10 }
DigitVal(c) == (CHOOSE n \in 1..16 : HexDigits[n] = c) - 1

RECURSIVE DecValue(_, _)
DecValue(t, acc) ==
    IF t = << >> THEN acc ELSE DecValue(Tail(t), acc * 10 + DigitVal(Head(t)))

\* The number a decimal text states, -1 if the text is not decimal.
ReadDec(t) ==
    IF Len(t) > 0 /\ \A i \in 1..Len(t) : t[i] \in DecChars
    THEN DecValue(t, 0) ELSE -1

RECURSIVE ReadItems(_, _, _)
ReadItems(t, val, acc) ==
    IF t = << >> THEN (IF val = -1 THEN acc ELSE Append(acc, val))
    ELSE IF Head(t) = "," THEN ReadItems(Tail(t), -1, Append(acc, val))
    ELSE IF Head(t) = " " THEN ReadItems(Tail(t), val, acc)
    ELSE ReadItems(Tail(t), (IF val = -1 THEN 0 ELSE val * 16) + DigitVal(Head(t)), acc)

\* The bytes a bracketed hexadecimal list states, <<-1>> if it is not one.
ReadRawMidi(t) ==
    IF /\ Len(t) >= 2
       /\ t[1] = "["
       /\ t[Len(t)] = "]"
       /\ \A i \in 2..(Len(t) - 1) : t[i] \in HexChars \cup {",", " "}
    THEN ReadItems(SubSeq(t, 2, Len(t) - 1), -1, << >>)
    ELSE << -1 >>

IsReceived(line) == line.msg[1] = "received "
IsUnparseable(line) == line.msg[1] = "unparseable midi event "

\* Where each arm's format string puts the frame offset and the raw bytes.
ReportTime(line) == line.msg[4]
ReportRaw(line) == IF IsReceived(line) THEN line.msg[6] ELSE line.msg[2]

\* The set-up run leaves behind once every step has succeeded.
SinkPorts == [sink |-> "sink"]

\* ------------------------------------------------------------------ claims

\* C1: within one cycle the i-th record logged is the outcome of the i-th
\* frame the host delivered: it states that frame's decode result (decoded
\* or unparseable) and that frame's raw bytes and offset.
C1_ReportsInFrameOrder ==
    \A i \in 1..Len(emitted) :
        /\ i <= Len(cur)
        /\ IsReceived(emitted[i]) = parse_midi_event[cur[i].bytes].ok
        /\ IsUnparseable(emitted[i]) = ~parse_midi_event[cur[i].bytes].ok
        /\ ReportRaw(emitted[i]) = RawMidiFmt(cur[i].bytes)
        /\ ReportTime(emitted[i]) = Dec(cur[i].time)

\* C1 witness: a cycle whose first frame failed and whose second, different
\* frame decoded has been logged completely.
C1_Witness ==
    /\ rt = "loop"
    /\ Len(cur) = 2
    /\ idx > Len(cur)
    /\ Len(emitted) = 2
    /\ cur[1] # cur[2]
    /\ IsUnparseable(emitted[1])
    /\ IsReceived(emitted[2])

\* C2 (as claimed): the callback is never in a position where its next step
\* has to wait for the reader of the sink to take something out of it.
C2_CallbackNeverWaitsOnSink ==
    ~ ( /\ rt = "loop"
        /\ idx <= Len(cur)
        /\ Enabled(logger, "jack_midi_sink", "Info")
        /\ ~SinkWritable )

\* C3 (as claimed): nothing is formatted and nothing is written to the log
\* inside the callback.
C3_NoFormattingInCallback ==
    rt_ops \cap {"format", "write_stderr"} = {}

\* C4: a frame that fails to decode is logged as unparseable and the loop
\* goes on: the records logged so far are one per frame visited, and when
\* the loop is over there is one record per frame of the cycle.
C4_FailureDoesNotHaltCycle ==
    rt = "loop" =>
        /\ idx <= Len(cur) + 1
        /\ Len(emitted) = idx - 1
        /\ \A i \in 1..Len(emitted) :
              ~parse_midi_event[cur[i].bytes].ok => IsUnparseable(emitted[i])
        /\ idx > Len(cur) => Len(emitted) = Len(cur)

\* C4 witness: the loop is over in a cycle whose first frame failed and was
\* followed by another frame; both were logged.
C4_Witness ==
    /\ rt = "loop"
    /\ idx > Len(cur)
    /\ Len(cur) >= 2
    /\ ~parse_midi_event[cur[1].bytes].ok
    /\ Len(emitted) = Len(cur)

\* C5: every record, of a decoded frame or of an unparseable one, states
\* its own frame's offset and its own frame's bytes: reading the decimal
\* and the hexadecimal list back gives the frame's time and bytes.
C5_ReportCarriesOwnFrame ==
    \A i \in 1..Len(emitted) :
        /\ i <= Len(cur)
        /\ IsReceived(emitted[i]) \/ IsUnparseable(emitted[i])
        /\ ReadDec(ReportTime(emitted[i])) = cur[i].time
        /\ ReadRawMidi(ReportRaw(emitted[i])) = cur[i].bytes

\* C5 witness: one cycle logged a decoded frame at offset 0 and an
\* unparseable frame of other bytes at offset 12.
C5_Witness ==
    /\ Len(emitted) = 2
    /\ IsReceived(emitted[1])
    /\ IsUnparseable(emitted[2])
    /\ cur[1].time = 0
    /\ cur[2].time = 12
    /\ cur[1].bytes # cur[2].bytes

\* C6: the callback has never returned anything but Continue.
C6_AlwaysContinue ==
    /\ ret \in {"none", "Continue"}
    /\ (rt = "loop" \/ ret # "none") => (pc \in {"activated", "recv"} => active)

\* C6 witness: every cycle so far has returned, one of them held a frame
\* that failed to decode and one a frame that decoded.
C6_Witness ==
    /\ rt = "idle"
    /\ ret = "Continue"
    /\ \E b \in FrameBytes : first[b][1] = "unparseable"
    /\ \E b \in FrameBytes : first[b][1] = "received"

DocumentedLevel(v) == CASE v = 0 -> "Info" [] v = 1 -> "Debug" [] OTHER -> "Trace"

\* C9: once the logger is set up, this program's level is the documented
\* one for the verbosity, other packages are filtered at warn, and the
\* info records of the callback are enabled.
C9_VerbosityLevels ==
    pc # "main" =>
        /\ logger.jack_midi_sink = DocumentedLevel(verbosity)
        /\ logger.default = "Warn"
        /\ Enabled(logger, "jack_midi_sink", "Info")
        /\ Enabled(logger, "nom_midi", "Warn")
        /\ ~Enabled(logger, "nom_midi", "Info")

\* C9 witness: at the highest verbosity a cycle has logged a record.
C9_Witness ==
    /\ pc # "main"
    /\ verbosity = MaxVerbosity
    /\ verbosity >= 2
    /\ Len(emitted) > 0

\* The callback has run, or may run, only after all of run's steps succeeded.
C10_OnlyAfterActivation ==
    (rt = "loop" \/ ret # "none" \/ active) =>
        /\ client = "open"
        /\ ports = SinkPorts
        /\ pc \in {"activated", "recv"}

\* run is over only by an error, and then no cycle was ever processed.
C10_ErrorMeansNoCycle ==
    pc \in {"err", "exit"} =>
        /\ client # "open"
        /\ ~active
        /\ rt = "idle"
        /\ ret = "none"
        /\ \A b \in FrameBytes : first[b] = NoOutcome

\* Once active the client stays active, and run stays in recv.
C10_StaysActive ==
    /\ active => active'
    /\ pc = "recv" => (pc' = "recv" /\ txAlive)

\* C10: the callback is invoked only after client creation, port
\* registration and activation have succeeded; a failure of one of them
\* ends run with no cycle processed; once activated the client is never
\* deactivated and run never returns.
C10_Lifecycle ==
    /\ []C10_OnlyAfterActivation
    /\ []C10_ErrorMeansNoCycle
    /\ [][C10_StaysActive]_vars

\* C10 witness: run waits in recv while a cycle is being processed after
\* an earlier one returned.
C10_Witness ==
    /\ pc = "recv"
    /\ txAlive
    /\ active
    /\ rt = "loop"
    /\ ret = "Continue"

=============================================================================
